---- MODULE Spec2Model ----
(***************************************************************************)
(* Model of run_ffnn_jpy_last150test.py: the sequence builder              *)
(* (create_sequences), the rolling forecast engine (rolling_forecast_ffnn) *)
(* and the evaluator (evaluate_model).                                     *)
(*                                                                         *)
(* Python arrays are sequences; At(arr, k) is the element at the Python    *)
(* (0-based) index k.  A value read out of the log-return or price column  *)
(* carries the index it was read from: [val |-> v, src |-> k].  The        *)
(* network is opaque: its parameters are the history of the optimizer      *)
(* steps applied to it, and its output is the term Forward(model, X).      *)
(***************************************************************************)
EXTENDS Integers, Sequences, FiniteSets, TLC

\* ---------------------------------------------------------------- bounds
MaxN == 5          \* rows of the data frame
MaxT == 3          \* fixed_test_set_size
MaxLookback == 2   \* lookback
MaxEpochs == 2     \* ffnn_config['epochs']
MaxBatch == 2      \* ffnn_config['batch_size']
MaxLen == 4        \* length of the array handed to create_sequences
MaxCols == 2       \* columns of the array handed to create_sequences
MaxEvalLen == 2    \* length of the sequences handed to evaluate_model

\* ------------------------------------------------------- program constants
\* main: pred_len = 1 (one-step rolling forecast)
pred_len == 1

\* 'feature_columns' in globals(): feature_columns is only ever a local of
\* main and load_and_prepare_data and a parameter name, never a module global.
feature_columns_in_globals == FALSE

VARIABLES
    \* inputs of rolling_forecast_ffnn
    log_returns, original_prices, lookback, fixed_test_set_size, epochs, batch_size,
    \* locals of rolling_forecast_ffnn
    pc, scaler, model, grad, X_train_all, y_train_all, epoch, i,
    all_true_price_levels_collected, all_predicted_price_levels_collected, ret,
    \* record of the data each phase consumed
    init_log, iter_log,
    \* create_sequences called on its own
    seq_in, seq_out,
    \* evaluate_model called on its own
    eval_in, eval_out, eval_prev,
    \* main: its inputs, its position and its locals
    main_in, main_pc, ffnn_configurations, run_idx, all_ffnn_run_results, best_ffnn_metrics,
    run_log, selected,
    \* the caller's side of "true_prices, pred_prices = rolling_forecast_ffnn(...)"
    caller,
    \* the epoch loop of a batch training: its inputs and its locals
    fit_in, fit_st

inputVars == <<log_returns, original_prices, lookback, fixed_test_set_size, epochs, batch_size>>
engineVars == <<pc, scaler, model, grad, X_train_all, y_train_all, epoch, i,
                all_true_price_levels_collected, all_predicted_price_levels_collected, ret,
                init_log, iter_log>>
seqVars == <<seq_in, seq_out>>
evalVars == <<eval_in, eval_out, eval_prev>>
mainVars == <<main_in, main_pc, ffnn_configurations, run_idx, all_ffnn_run_results,
              best_ffnn_metrics, run_log, selected>>
fitVars == <<fit_in, fit_st>>
restVars == <<mainVars, fitVars>>
vars == <<inputVars, engineVars, seqVars, evalVars, restVars, caller>>

\* ------------------------------------------------------------ Python arrays
None == [kind |-> "None"]

Min(a, b) == IF a < b THEN a ELSE b
Max(a, b) == IF a > b THEN a ELSE b

At(arr, k) == arr[k + 1]

\* the indices arr[lo:hi] selects, in order (negative bounds count from the end)
SliceStart(n, lo) == IF lo < 0 THEN Max(n + lo, 0) ELSE Min(lo, n)
SliceIdx(n, lo, hi) ==
    LET a == SliceStart(n, lo)
        b == SliceStart(n, hi)
    IN  [k \in 1..Max(b - a, 0) |-> a + k - 1]

\* arr[lo:hi]
Slice(arr, lo, hi) ==
    LET idx == SliceIdx(Len(arr), lo, hi)
    IN  [k \in 1..Len(idx) |-> At(arr, idx[k])]

\* column[lo:hi] of the data frame, each value with the index it comes from
ReadSlice(arr, lo, hi) ==
    LET idx == SliceIdx(Len(arr), lo, hi)
    IN  [k \in 1..Len(idx) |-> [val |-> At(arr, idx[k]), src |-> idx[k]]]

\* column[k]
ReadAt(arr, k) == [val |-> At(arr, k), src |-> k]

RECURSIVE SumSeq(_)
SumSeq(s) == IF s = <<>> THEN 0 ELSE Head(s) + SumSeq(Tail(s))

Vals(s) == [k \in 1..Len(s) |-> s[k].val]
Srcs(s) == {s[k].src : k \in 1..Len(s)}
Squares(s) == [k \in 1..Len(s) |-> s[k] * s[k]]

\* --------------------------------------------------------- create_sequences
\* range(len(data_array) - lookback): the number of (Window, Target) pairs
SequenceCount(n, lb) == Max(n - lb, 0)

\* feature_sequence = data_array[i:(i + lookback)]
FeatureSequence(data_array, k, lb) == Slice(data_array, k, k + lb)

\* variant: the target taken from the last row of the window
TargetOf_inside(data_array, k, lb) == At(data_array, k + lb - 1)[1]

\* data_array[i + lookback, 0]: column 0 of the row after the window
TargetOf(data_array, k, lb) == At(data_array, k + lb)[1]

\* data_array is a sequence of rows, a row a sequence of columns; the result is
\* (np.array(features), np.array(targets).reshape(-1,1))
create_sequences(data_array, lb) ==
    LET cnt == SequenceCount(Len(data_array), lb)
    IN  [features |-> [k \in 1..cnt |-> FeatureSequence(data_array, k - 1, lb)],
         targets  |-> [k \in 1..cnt |-> <<TargetOf(data_array, k - 1, lb)>>]]

\* ------------------------------------------------------------ StandardScaler
\* The fitted parameters mean_ = sum/n and var_ = sumsq/n - (sum/n)^2 are kept as
\* the exact statistics (n, sum, sumsq) they are computed from; srcs is the set
\* of indices of the values the fit consumed.
NotFitted == [kind |-> "NotFitted"]

StandardScalerFit(xs) ==
    [n |-> Len(xs), sum |-> SumSeq(Vals(xs)), sumsq |-> SumSeq(Squares(Vals(xs))),
     srcs |-> Srcs(xs)]

\* scale_^2 * n^2 : n*sumsq - sum^2, and n^2 when the variance is 0 (scale_ = 1)
Scale2(sc) ==
    LET r == sc.n * sc.sumsq - sc.sum * sc.sum
    IN  IF r = 0 THEN sc.n * sc.n ELSE r

\* (x - mean_) / scale_ = num / sqrt(den2), kept exactly as (num, den2)
Transform(sc, x) ==
    [val |-> [num |-> sc.n * x.val - sc.sum, den2 |-> Scale2(sc)], src |-> x.src]

TransformAll(sc, xs) == [k \in 1..Len(xs) |-> Transform(sc, xs[k])]

\* y * scale_ + mean_ of a network output y: a term over the fitted parameters
InverseTransform(sc, y) == [op |-> "inverse_transform", scaler |-> sc, y |-> y]

\* ------------------------------------------------------ network and optimizer
\* FFNNModel(...) freshly constructed: no optimizer step applied yet
FreshModel == [steps |-> 0, seen |-> {}]

\* model(X): the output is determined by the parameters and the input
Forward(m, X) == [op |-> "forward", model |-> m, X |-> X]

\* loss.backward() on a batch: the gradient buffers now depend on these indices
Backward(X_batch, y_batch) ==
    UNION {Srcs(X_batch[k]) : k \in 1..Len(X_batch)} \cup Srcs(y_batch)

\* optimizer.step(): the parameters move along the gradient held in the buffers
OptimizerStep(m, g) == [steps |-> m.steps + 1, seen |-> m.seen \cup g]

\* DataLoader(batch_size, shuffle=True): consecutive chunks of a permutation
NumBatches(n, bs) == (n + bs - 1) \div bs

RECURSIVE SetToSeq(_)
SetToSeq(S) ==
    IF S = {} THEN <<>>
    ELSE LET m == CHOOSE x \in S : \A y \in S : x <= y
         IN  <<m>> \o SetToSeq(S \ {m})

\* one epoch: for each batch zero_grad, forward, backward, step
RECURSIVE TrainBatches(_, _, _, _, _)
TrainBatches(m, order, bs, X, y) ==
    IF order = <<>> THEN m
    ELSE LET take == Min(bs, Len(order))
             X_batch == [k \in 1..take |-> X[order[k]]]
             y_batch == [k \in 1..take |-> y[order[k]][1]]
         IN  TrainBatches(OptimizerStep(m, Backward(X_batch, y_batch)),
                          SubSeq(order, take + 1, Len(order)), bs, X, y)

\* ------------------------------------------------------ rolling_forecast_ffnn
num_total_log_points == Len(log_returns)

test_start_idx_log == num_total_log_points - fixed_test_set_size

\* variant: range(test_start_idx_log, num_total_log_points - pred_len)
LoopStop_early == num_total_log_points - pred_len

\* range(test_start_idx_log, num_total_log_points - pred_len + 1): exclusive stop
LoopStop == num_total_log_points - pred_len + 1

\* variant: the window slid one step forward, log_returns[i-lookback+1:i+1]
current_sequence_shifted(j) == ReadSlice(log_returns, j - lookback + 1, j + 1)

\* current_sequence = log_returns[i-lookback:i]
current_sequence(j) == ReadSlice(log_returns, j - lookback, j)

\* if i < num_total_log_points - 1
HasNewTrueValue(j) == j < num_total_log_points - 1

\* variant: the update labelled with the next, not yet revealed, log-return
UpdateLabel_next(j) == ReadAt(log_returns, j + 1)

\* new_y = scaler.transform([[log_returns[i]]])
UpdateLabel(j) == ReadAt(log_returns, j)

\* optimizer.zero_grad(); output = model(new_X); loss = criterion(output, new_y);
\* loss.backward()  -- the gradient is left in the buffers; there is no
\* optimizer.step() after it, so the parameters stay as they are
IncrementalUpdate(m, g) == m

\* last_actual_price = original_prices[i]
LastActualPrice(j) == ReadAt(original_prices, j)

\* variant: the true value taken at i instead of i+1
ActualPrice_same(j) ==
    IF j < Len(original_prices) THEN ReadAt(original_prices, j) ELSE None

\* actual_price = original_prices[i+1] if i+1 < len(original_prices) else None
ActualPrice(j) ==
    IF j + 1 < Len(original_prices) THEN ReadAt(original_prices, j + 1) ELSE None

\* predicted_price = last_actual_price * np.exp(predicted_log_return[0])
PredictedPrice(base, plr) == [op |-> "mul_exp", base |-> base.val, plr |-> plr]

\* variant: the scaler refit on everything revealed so far, log_returns[:i+1]
ScalerAfterIteration_refit(sc, j) == StandardScalerFit(ReadSlice(log_returns, 0, j + 1))

\* the scaler the loop body leaves behind: transform and inverse_transform only
ScalerAfterIteration(sc, j) == sc

NoReturn == [kind |-> "running"]
ReturnTuple(t, p) == [kind |-> "tuple", true |-> t, pred |-> p]
\* np.zeros(pred_len): one array, not a pair
ReturnZeros == [kind |-> "array", values |-> [k \in 1..pred_len |-> 0]]

\* variant: the insufficient-history return written like the empty-training one
InsufficientHistoryResult_zeros == ReturnZeros

\* return np.array([]), np.array([])
InsufficientHistoryResult == ReturnTuple(<<>>, <<>>)

\* ------------------------------------------------------------------ inputs
\* load_and_prepare_data: log_return[k] = log(price[k] / price[k-1]).  Returns are
\* measured in units of log 2 and drawn from ReturnValues, so the prices are the
\* integers 2^(n + r_0 + ... + r_k): the two columns stay consistent.
ReturnValues == {-1, 1}

RECURSIVE Pow2(_)
Pow2(e) == IF e <= 0 THEN 1 ELSE 2 * Pow2(e - 1)

PricesOf(rs) == [k \in 1..Len(rs) |-> Pow2(Len(rs) + SumSeq(SubSeq(rs, 1, k)))]

SeqIdle == seq_in = None /\ seq_out = None
EvalIdle == eval_in = None /\ eval_out = None /\ eval_prev = None

MainIdle ==
    /\ main_in = None
    /\ main_pc = "idle"
    /\ ffnn_configurations = <<>>
    /\ run_idx = 0
    /\ all_ffnn_run_results = <<>>
    /\ best_ffnn_metrics = None
    /\ run_log = <<>>
    /\ selected = None

FitIdle == fit_in = None /\ fit_st = None

\* nothing has called the engine yet
NotCalled == [kind |-> "waiting"]

EngineEntry ==
    /\ pc = "entry"
    /\ scaler = NotFitted
    /\ model = None
    /\ grad = {}
    /\ X_train_all = <<>>
    /\ y_train_all = <<>>
    /\ epoch = 0
    /\ i = 0
    /\ all_true_price_levels_collected = <<>>
    /\ all_predicted_price_levels_collected = <<>>
    /\ ret = NoReturn
    /\ init_log = {}
    /\ iter_log = <<>>

Init ==
    /\ \E n \in 1..MaxN : log_returns \in [1..n -> ReturnValues]
    /\ original_prices = PricesOf(log_returns)
    /\ lookback \in 1..MaxLookback
    \* a held-out test window of at least one point; it may exceed the series
    /\ fixed_test_set_size \in 1..MaxT
    /\ epochs \in 1..MaxEpochs
    /\ batch_size \in 1..MaxBatch
    /\ EngineEntry
    /\ SeqIdle
    /\ EvalIdle
    /\ MainIdle
    /\ FitIdle
    /\ caller = NotCalled

\* if test_start_idx_log < lookback: return np.array([]), np.array([])
InsufficientHistory ==
    /\ pc = "entry"
    /\ test_start_idx_log < lookback
    /\ ret' = InsufficientHistoryResult
    /\ pc' = "returned"
    /\ UNCHANGED <<inputVars, scaler, model, grad, X_train_all, y_train_all, epoch, i,
                   all_true_price_levels_collected, all_predicted_price_levels_collected,
                   init_log, iter_log, seqVars, evalVars, restVars, caller>>

\* variant: the transform fit on the whole column
InitialSlice_all == ReadSlice(log_returns, 0, num_total_log_points)

\* the rows phase 1 takes out of the data frame
InitialSlice == ReadSlice(log_returns, 0, test_start_idx_log)

\* model and optimizer construction, scaler.fit_transform on the prefix,
\* create_sequences on the scaled prefix, and the empty-training-set return
Initialize ==
    /\ pc = "entry"
    /\ ~(test_start_idx_log < lookback)
    /\ LET fit_on == InitialSlice
           sc == StandardScalerFit(fit_on)
           scaled_log_returns == TransformAll(sc, fit_on)
           \* reshape(-1,1): one column per row
           rows == [k \in 1..Len(scaled_log_returns) |-> <<scaled_log_returns[k]>>]
           \* 'feature_columns' in globals() is false: the scaled array is used
           built == create_sequences(rows, lookback)
           \* X_train_all.reshape(len(X_train_all), -1): each window flattened
           flat == [k \in 1..Len(built.features) |->
                       [c \in 1..Len(built.features[k]) |-> built.features[k][c][1]]]
       IN  /\ ~feature_columns_in_globals
           /\ model' = FreshModel
           /\ scaler' = sc
           /\ init_log' = Srcs(fit_on)
                          \cup {SliceIdx(Len(log_returns), 0, test_start_idx_log)[k] :
                                  k \in 1..Len(SliceIdx(Len(log_returns), 0, test_start_idx_log))}
           /\ IF Len(built.features) = 0
              THEN /\ ret' = ReturnZeros
                   /\ pc' = "returned"
                   /\ UNCHANGED <<X_train_all, y_train_all>>
              ELSE /\ X_train_all' = flat
                   /\ y_train_all' = built.targets
                   /\ pc' = "train"
                   /\ UNCHANGED ret
    /\ UNCHANGED <<inputVars, grad, epoch, i,
                   all_true_price_levels_collected, all_predicted_price_levels_collected,
                   iter_log, seqVars, evalVars, restVars, caller>>

\* one pass of "for epoch in range(ffnn_config['epochs'])": the loader shuffles,
\* so any examples may come last; the last batch's gradient stays in the buffers
TrainEpoch ==
    /\ pc = "train"
    /\ epoch < epochs
    /\ LET n == Len(X_train_all)
           nb == NumBatches(n, batch_size)
           lastSize == n - (nb - 1) * batch_size
       IN  \E last \in {S \in SUBSET (1..n) : Cardinality(S) = lastSize} :
              LET order == SetToSeq((1..n) \ last) \o SetToSeq(last)
                  lastSeq == SetToSeq(last)
              IN  /\ model' = TrainBatches(model, order, batch_size, X_train_all, y_train_all)
                  /\ grad' = Backward([k \in 1..Len(lastSeq) |-> X_train_all[lastSeq[k]]],
                                      [k \in 1..Len(lastSeq) |-> y_train_all[lastSeq[k]][1]])
    /\ epoch' = epoch + 1
    /\ UNCHANGED <<inputVars, pc, scaler, X_train_all, y_train_all, i,
                   all_true_price_levels_collected, all_predicted_price_levels_collected,
                   ret, init_log, iter_log, seqVars, evalVars, restVars, caller>>

\* the result lists and the tqdm range are created once the epochs are over
BeginLoop ==
    /\ pc = "train"
    /\ ~(epoch < epochs)
    /\ all_true_price_levels_collected' = <<>>
    /\ all_predicted_price_levels_collected' = <<>>
    /\ i' = test_start_idx_log
    /\ pc' = "loop"
    /\ UNCHANGED <<inputVars, scaler, model, grad, X_train_all, y_train_all, epoch,
                   ret, init_log, iter_log, seqVars, evalVars, restVars, caller>>

\* one pass of the body of "for i in progress_bar"
Iterate ==
    /\ pc = "loop"
    /\ i < LoopStop
    /\ LET seq == current_sequence(i)
           scaled_sequence == TransformAll(scaler, seq)
           \* model.eval(); pred_scaled = model(X_pred)
           pred_scaled == Forward(model, scaled_sequence)
           predicted_log_return == InverseTransform(scaler, pred_scaled)
           update == HasNewTrueValue(i)
           new_X == scaled_sequence
           new_y == Transform(scaler, UpdateLabel(i))
           g == Backward(<<new_X>>, <<new_y>>)
           last_actual_price == LastActualPrice(i)
           predicted_price == PredictedPrice(last_actual_price, predicted_log_return)
           actual_price == ActualPrice(i)
       IN  /\ model' = IF update THEN IncrementalUpdate(model, g) ELSE model
           /\ grad' = IF update THEN g ELSE grad
           /\ scaler' = ScalerAfterIteration(scaler, i)
           /\ IF actual_price # None
              THEN /\ all_predicted_price_levels_collected' =
                          Append(all_predicted_price_levels_collected, predicted_price)
                   /\ all_true_price_levels_collected' =
                          Append(all_true_price_levels_collected, actual_price.val)
              ELSE UNCHANGED <<all_true_price_levels_collected,
                               all_predicted_price_levels_collected>>
           /\ iter_log' = Append(iter_log,
                  [i |-> i,
                   current_sequence |-> seq,
                   model_used |-> model,
                   predicted_log_return |-> predicted_log_return,
                   update |-> IF update THEN [new_X |-> new_X, new_y |-> new_y] ELSE None,
                   last_actual_price |-> last_actual_price,
                   actual_price |-> actual_price,
                   recorded |-> actual_price # None])
    /\ i' = i + 1
    /\ UNCHANGED <<inputVars, pc, X_train_all, y_train_all, epoch, ret, init_log,
                   seqVars, evalVars, restVars, caller>>

\* return np.array(all_true_price_levels_collected), np.array(all_predicted_...)
ReturnResult ==
    /\ pc = "loop"
    /\ ~(i < LoopStop)
    /\ ret' = ReturnTuple(all_true_price_levels_collected,
                          all_predicted_price_levels_collected)
    /\ pc' = "returned"
    /\ UNCHANGED <<inputVars, scaler, model, grad, X_train_all, y_train_all, epoch, i,
                   all_true_price_levels_collected, all_predicted_price_levels_collected,
                   init_log, iter_log, seqVars, evalVars, restVars, caller>>

\* true_prices, pred_prices = rolling_forecast_ffnn(...): a pair unpacks into
\* its two arrays; np.zeros(pred_len) holds pred_len = 1 element, and unpacking
\* one element into two names raises ValueError
CallerUnpack ==
    /\ pc = "returned"
    /\ caller = NotCalled
    /\ caller' = IF ret.kind = "tuple"
                  THEN [kind |-> "unpacked", true_prices |-> ret.true, pred_prices |-> ret.pred]
                  ELSE IF Len(ret.values) = 2
                  THEN [kind |-> "unpacked", true_prices |-> ret.values[1],
                        pred_prices |-> ret.values[2]]
                  ELSE [kind |-> "ValueError"]
    /\ UNCHANGED <<inputVars, engineVars, seqVars, evalVars, restVars>>

Next ==
    \/ InsufficientHistory
    \/ Initialize
    \/ TrainEpoch
    \/ BeginLoop
    \/ Iterate
    \/ ReturnResult
    \/ CallerUnpack

Spec == Init /\ [][Next]_vars

\* ===================================================== rolling forecast engine
Entries == {iter_log[k] : k \in 1..Len(iter_log)}

\* the indices of the log-return column an iteration read
LogReturnReads(e) ==
    Srcs(e.current_sequence) \cup (IF e.update # None THEN {e.update.new_y.src} ELSE {})

\* the indices of the price column an iteration read
PriceReads(e) ==
    {e.last_actual_price.src} \cup (IF e.actual_price # None THEN {e.actual_price.src} ELSE {})

\* the indices behind the prediction of an iteration: the window fed to the
\* network, the data the parameters were trained on, the data the scaler was fit
\* on, and the base price
PredictionInputs(e) ==
    Srcs(e.predicted_log_return.y.X) \cup e.predicted_log_return.y.model.seen
        \cup e.predicted_log_return.scaler.srcs \cup {e.last_actual_price.src}

\* C1 as stated: at every loop iteration i, every value read from the price
\* series or the log-return series has a source index <= i.
C1_NoReadAboveI ==
    \A e \in Entries : \A k \in LogReturnReads(e) \cup PriceReads(e) : k <= e.i

\* C1 amended: at every loop iteration i every log-return read has index <= i and
\* every input of the prediction and of the update has index <= i; the price
\* series is read at i and, when it exists, at i+1, and the value read at i+1 is
\* used only as the recorded true value.
C1_CausalExceptTruth ==
    \A e \in Entries :
        /\ \A k \in LogReturnReads(e) : k <= e.i
        /\ \A k \in PredictionInputs(e) : k <= e.i
        /\ e.update # None =>
              \A k \in Srcs(e.update.new_X) \cup {e.update.new_y.src} : k <= e.i
        /\ e.last_actual_price.src = e.i
        /\ e.actual_price # None => e.actual_price.src = e.i + 1
        /\ \A k \in PriceReads(e) : k > e.i => (e.actual_price # None /\ k = e.actual_price.src)

C1_Witness ==
    \E e \in Entries : e.update # None /\ e.actual_price # None /\ e.i > test_start_idx_log

\* C2: the update of iteration i takes the window of log-returns [i-L, i) as input
\* and the log-return at i as label, and reads no log-return above i.
C2_UpdateExample ==
    \A e \in Entries :
        e.update # None =>
            /\ Len(e.update.new_X) = lookback
            /\ \A k \in 1..lookback :
                  /\ e.update.new_X[k].src = e.i - lookback + k - 1
                  /\ e.update.new_X[k] = Transform(scaler, ReadAt(log_returns, e.i - lookback + k - 1))
            /\ e.update.new_y.src = e.i
            /\ e.update.new_y = Transform(scaler, ReadAt(log_returns, e.i))
            /\ \A k \in LogReturnReads(e) : k <= e.i

C2_Witness ==
    \E e \in Entries : e.update # None /\ Len(e.update.new_X) >= 2

\* C3: when iteration i sees a new true value, one gradient step is applied, and
\* the parameters the prediction of iteration i+1 uses are the ones that step
\* produces from the parameters used at iteration i.
C3_UpdateStepsModel ==
    \A k \in 1..(Len(iter_log) - 1) :
        iter_log[k].update # None =>
            iter_log[k + 1].model_used =
                OptimizerStep(iter_log[k].model_used,
                              Backward(<<iter_log[k].update.new_X>>, <<iter_log[k].update.new_y>>))

\* C4: phase 1 reads only indices below test_start: the scaler is fit on exactly
\* [0, test_start), every training window and target comes from that prefix, and
\* so does everything the initial fit puts into the parameters.
TrainingSrcs ==
    UNION {Srcs(X_train_all[k]) : k \in 1..Len(X_train_all)}
        \cup {y_train_all[k][1].src : k \in 1..Len(y_train_all)}

C4_InitReadsPrefix ==
    scaler # NotFitted =>
        /\ scaler.srcs = 0..(test_start_idx_log - 1)
        /\ scaler.n = test_start_idx_log
        /\ \A k \in init_log : k < test_start_idx_log
        /\ \A k \in TrainingSrcs : 0 <= k /\ k < test_start_idx_log
        /\ pc = "train" => \A k \in model.seen \cup grad : k < test_start_idx_log

C4_Witness ==
    /\ pc = "train"
    /\ epoch = epochs
    /\ Len(X_train_all) >= 2
    /\ model.seen = 0..(test_start_idx_log - 1)
    /\ test_start_idx_log < num_total_log_points

\* C5: with a non-empty initial training set (test_start > L) the result holds
\* one record per i in test_start..N-2, in increasing i: true value price[i+1],
\* predicted value price[i] * exp(predicted log-return of iteration i); records
\* are only appended; both returned arrays have length N - test_start - 1.
RecordOf(k) ==
    LET j == test_start_idx_log + k - 1
    IN  [true |-> At(original_prices, j + 1),
         pred |-> [op |-> "mul_exp", base |-> At(original_prices, j),
                   plr |-> iter_log[k].predicted_log_return]]

RecordsSoFar ==
    /\ Len(all_true_price_levels_collected) = Len(all_predicted_price_levels_collected)
    /\ Len(all_true_price_levels_collected) <= Len(iter_log)
    /\ \A k \in 1..Len(all_true_price_levels_collected) :
          /\ iter_log[k].i = test_start_idx_log + k - 1
          /\ iter_log[k].i <= num_total_log_points - 2
          /\ all_true_price_levels_collected[k] = RecordOf(k).true
          /\ all_predicted_price_levels_collected[k] = RecordOf(k).pred

IsPrefix(s, t) == Len(s) <= Len(t) /\ SubSeq(t, 1, Len(s)) = s

C5_Returned ==
    (pc = "returned" /\ test_start_idx_log > lookback) =>
        /\ ret.kind = "tuple"
        /\ ret.true = all_true_price_levels_collected
        /\ ret.pred = all_predicted_price_levels_collected
        /\ Len(ret.true) = num_total_log_points - test_start_idx_log - 1
        /\ Len(ret.pred) = num_total_log_points - test_start_idx_log - 1

C6_InsufficientHistory ==
    test_start_idx_log < lookback =>
        /\ pc \in {"entry", "returned"}
        /\ model = None
        /\ scaler = NotFitted
        /\ epoch = 0
        /\ iter_log = <<>>
        /\ pc = "returned" => ret = [kind |-> "tuple", true |-> <<>>, pred |-> <<>>]

C6_Witness ==
    /\ pc = "returned"
    /\ test_start_idx_log < lookback
    /\ test_start_idx_log >= 0

\* the indices the loop has visited, in the order it visited them
Visited == [k \in 1..Len(iter_log) |-> iter_log[k].i]

UpTo(a, b) == [k \in 1..Max(b - a + 1, 0) |-> a + k - 1]

FromLoop == pc = "returned" /\ iter_log # <<>>

\* C7 as stated: the loop visits exactly test_start..N-2, once each and in
\* increasing order, and runs no iteration for i > N-2.
C7_StopsAtNMinus2 ==
    /\ \A e \in Entries : e.i <= num_total_log_points - 2
    /\ FromLoop => Visited = UpTo(test_start_idx_log, num_total_log_points - 2)

\* C7 amended: the loop visits exactly test_start..N-1, once each and in
\* increasing order; the iteration at N-1 predicts but records nothing and
\* updates nothing; no iteration runs for i > N-1.
C7_VisitsThroughLast ==
    /\ pc = "loop" => Visited = UpTo(test_start_idx_log, i - 1)
    /\ \A e \in Entries : e.i <= num_total_log_points - 1
    /\ \A e \in Entries :
          e.i = num_total_log_points - 1 => (e.update = None /\ ~e.recorded)
    /\ \A e \in Entries :
          e.i < num_total_log_points - 1 => (e.update # None /\ e.recorded)
    /\ FromLoop => Visited = UpTo(test_start_idx_log, num_total_log_points - 1)

C7_Witness ==
    /\ FromLoop
    /\ Len(iter_log) >= 3
    /\ iter_log[Len(iter_log)].i = num_total_log_points - 1

\* C8: no loop iteration changes the standardization transform: at every point
\* of the loop and after it the parameters are those fit in phase 1 on
\* [0, test_start), and every iteration transformed and inverted with them.
Phase1Scaler == StandardScalerFit(ReadSlice(log_returns, 0, test_start_idx_log))

C8_ScalerNeverRefit ==
    pc \in {"loop", "returned"} /\ scaler # NotFitted =>
        /\ scaler = Phase1Scaler
        /\ \A e \in Entries :
              /\ e.predicted_log_return.scaler = Phase1Scaler
              /\ \A k \in 1..Len(e.current_sequence) :
                    e.predicted_log_return.y.X[k] = Transform(Phase1Scaler, e.current_sequence[k])

C8_Witness ==
    /\ pc = "returned"
    /\ Len(iter_log) >= 3
    /\ scaler # NotFitted

\* ===================================================== create_sequences alone
CellValues == {0, 1}

\* a feature cell: a value that names its row and its column
FeatureCell(k, c) == 10 * k + c

\* n rows of c columns: column 0 (the log-return) is col, the others are features
RowsWith(col, c) == [k \in 1..Len(col) |-> <<col[k]>> \o [x \in 1..(c - 1) |-> FeatureCell(k, x)]]

\* what a caller can hand over for a log-return column col: a DataFrame with
\* that column and 0..MaxCols-1 feature columns, a 2-D array, or a 1-D array
SeqInputs(col) ==
    {[kind |-> "DataFrame", log_return |-> col,
      features |-> [k \in 1..Len(col) |-> [x \in 1..f |-> FeatureCell(k, x)]]] :
        f \in 0..(MaxCols - 1)}
    \cup {[kind |-> "ndarray2d", data |-> RowsWith(col, c)] : c \in 1..MaxCols}
    \cup {[kind |-> "ndarray1d", data |-> col]}

\* the isinstance(data, pd.DataFrame) branch and the reshape of a 1-D array:
\* the log-return is column 0, the feature columns follow
DataArray(input) ==
    IF input.kind = "DataFrame"
    THEN [k \in 1..Len(input.log_return) |-> <<input.log_return[k]>> \o input.features[k]]
    ELSE IF input.kind = "ndarray2d"
    THEN input.data
    ELSE [k \in 1..Len(input.data) |-> <<input.data[k]>>]

EngineIdle ==
    /\ log_returns = <<>>
    /\ original_prices = <<>>
    /\ lookback = 1
    /\ fixed_test_set_size = 1
    /\ epochs = 1
    /\ batch_size = 1
    /\ pc = "idle"
    /\ scaler = NotFitted
    /\ model = None
    /\ grad = {}
    /\ X_train_all = <<>>
    /\ y_train_all = <<>>
    /\ epoch = 0
    /\ i = 0
    /\ all_true_price_levels_collected = <<>>
    /\ all_predicted_price_levels_collected = <<>>
    /\ ret = NoReturn
    /\ init_log = {}
    /\ iter_log = <<>>

InitSeq ==
    /\ EngineIdle
    /\ EvalIdle
    /\ MainIdle
    /\ FitIdle
    /\ caller = NotCalled
    /\ \E n \in 0..MaxLen : \E col \in [1..n -> CellValues] :
          \E d \in SeqInputs(col), lb \in 1..MaxLookback :
              seq_in = [data |-> d, lookback |-> lb]
    /\ seq_out = None

CallCreateSequences ==
    /\ seq_in # None
    /\ seq_out = None
    /\ seq_out' = create_sequences(DataArray(seq_in.data), seq_in.lookback)
    /\ UNCHANGED <<inputVars, engineVars, seq_in, evalVars, restVars, caller>>

NextSeq == CallCreateSequences

SpecSeq == InitSeq /\ [][NextSeq]_vars

\* the rows the call works on, with the log-return first
RowsGiven ==
    LET d == seq_in.data
    IN  [k \in 1..(IF d.kind = "DataFrame" THEN Len(d.log_return) ELSE Len(d.data)) |->
            IF d.kind = "DataFrame" THEN <<d.log_return[k]>> \o d.features[k]
            ELSE IF d.kind = "ndarray2d" THEN d.data[k]
            ELSE <<d.data[k]>>]

\* C9: for a series of length n and lookback L >= 1, create_sequences returns one
\* (Window, Target) pair for each i in 0..n-L-1, the Window being the rows at
\* [i, i+L) in time order and the Target column 0 of the row at i+L, and no pair
\* when n <= L; so a Target lies strictly after the last row of its Window.
C9_AllPairs ==
    seq_out # None =>
        LET n == Len(RowsGiven)
            L == seq_in.lookback
        IN  /\ Len(seq_out.features) = (IF n <= L THEN 0 ELSE n - L)
            /\ Len(seq_out.targets) = Len(seq_out.features)
            /\ \A w \in 0..(n - L - 1) :
                  /\ Len(seq_out.features[w + 1]) = L
                  /\ \A t \in 0..(L - 1) : seq_out.features[w + 1][t + 1] = RowsGiven[w + t + 1]
                  /\ seq_out.targets[w + 1] = <<RowsGiven[w + L + 1][1]>>

C9_Witness ==
    /\ seq_out # None
    /\ Len(seq_out.features) >= 2
    /\ seq_in.lookback >= 2
    /\ Len(RowsGiven[1]) >= 2
    /\ seq_out.targets[1] # <<RowsGiven[seq_in.lookback][1]>>

C9_WitnessEmpty ==
    /\ seq_out # None
    /\ Len(RowsGiven) = seq_in.lookback
    /\ seq_out.features = <<>>

\* ============================================================ evaluate_model
\* A float is NaN, +inf, -inf, or the finite number big * 1e12 + num / den.
NaN == [kind |-> "nan"]
PosInf == [kind |-> "inf", sign |-> 1]
NegInf == [kind |-> "inf", sign |-> -1]
Finite(b, p, q) == [kind |-> "finite", big |-> b, num |-> p, den |-> q]
Num(v) == Finite(0, v, 1)

IsFinite(x) == x.kind = "finite"
AllFinite(xs) == \A k \in 1..Len(xs) : IsFinite(xs[k])

\* true values are whole numbers wherever they are finite
SeqMax(xs) == CHOOSE m \in {xs[k].num : k \in 1..Len(xs)} : \A k \in 1..Len(xs) : xs[k].num <= m
SeqMin(xs) == CHOOSE m \in {xs[k].num : k \in 1..Len(xs)} : \A k \in 1..Len(xs) : m <= xs[k].num
SeqSum(xs) == SumSeq([k \in 1..Len(xs) |-> xs[k].num])

\* len(y_true) == 0 or len(y_pred) == 0 or len(y_true) != len(y_pred)
DegenerateInput(y_true, y_pred) ==
    Len(y_true) = 0 \/ Len(y_pred) = 0 \/ Len(y_true) # Len(y_pred)

\* variant: R2 given the same sign as the error metrics
WorstMetrics_R2Positive ==
    [MSE |-> PosInf, RMSE |-> PosInf, MAE |-> PosInf, MAPE |-> PosInf, R2 |-> PosInf]

\* {'MSE': inf, 'RMSE': inf, 'MAE': inf, 'MAPE': inf, 'R2': -inf}
WorstMetrics ==
    [MSE |-> PosInf, RMSE |-> PosInf, MAE |-> PosInf, MAPE |-> PosInf, R2 |-> NegInf]

\* the three fill values chosen before np.nan_to_num
FillValues(y_true) ==
    IF AllFinite(y_true) /\ Len(y_true) > 0
    THEN [nan    |-> Finite(0, SeqSum(y_true), Len(y_true)),
          posinf |-> IF SeqMax(y_true) > 0 THEN Num(SeqMax(y_true) * 2) ELSE Finite(1, 0, 1),
          neginf |-> IF SeqMin(y_true) < 0 THEN Num(SeqMin(y_true) * 2) ELSE Finite(-1, 0, 1)]
    ELSE [nan |-> Num(0), posinf |-> Finite(1, 0, 1), neginf |-> Finite(-1, 0, 1)]

\* np.nan_to_num(y_pred, nan=, posinf=, neginf=)
NanToNum(y_pred, fill) ==
    [k \in 1..Len(y_pred) |->
        IF y_pred[k] = NaN THEN fill.nan
        ELSE IF y_pred[k] = PosInf THEN fill.posinf
        ELSE IF y_pred[k] = NegInf THEN fill.neginf
        ELSE y_pred[k]]

\* if not np.all(np.isfinite(y_pred_prices)): ... substitute
Substituted(y_true, y_pred) ==
    IF ~AllFinite(y_pred) THEN NanToNum(y_pred, FillValues(y_true)) ELSE y_pred

\* np.abs(x) > 1e-7 and np.allclose(x, 0) on the numbers above
IsZero(x) == IsFinite(x) /\ x.big = 0 /\ x.num = 0
Masked(y_true, xs) ==
    LET keep == SetToSeq({k \in 1..Len(y_true) : ~IsZero(y_true[k])})
    IN  [k \in 1..Len(keep) |-> xs[keep[k]]]

\* the MAPE branch; the masked mean is finite, so the closing isfinite test keeps it
Mape(y_true, y_pred) ==
    IF Masked(y_true, y_true) = <<>>
    THEN IF \A k \in 1..Len(y_pred) : IsZero(y_pred[k]) THEN Num(0) ELSE PosInf
    ELSE [op |-> "mean_abs_pct", y_true |-> Masked(y_true, y_true),
          y_pred |-> Masked(y_true, y_pred)]

\* sklearn's metrics are functions of the two arrays; they reject non-finite input
evaluate_model(y_true, y_pred) ==
    IF DegenerateInput(y_true, y_pred)
    THEN [kind |-> "return", metrics |-> WorstMetrics]
    ELSE LET filled == Substituted(y_true, y_pred)
             mse == [op |-> "mean_squared_error", y_true |-> y_true, y_pred |-> filled]
         IN  IF ~AllFinite(y_true)
             THEN [kind |-> "raise", exc |-> "ValueError", at |-> "mean_squared_error"]
             ELSE [kind |-> "return",
                   metrics |-> [MSE  |-> mse,
                                RMSE |-> [op |-> "sqrt", of |-> mse],
                                MAE  |-> [op |-> "mean_absolute_error",
                                          y_true |-> y_true, y_pred |-> filled],
                                MAPE |-> Mape(y_true, filled),
                                R2   |-> [op |-> "r2_score",
                                          y_true |-> y_true, y_pred |-> filled]]]

TrueValues == {Num(-1), Num(0), Num(2), NaN}
PredValues == {Num(0), Num(1), NaN, PosInf, NegInf}

InitEval ==
    /\ EngineIdle
    /\ SeqIdle
    /\ MainIdle
    /\ FitIdle
    /\ caller = NotCalled
    /\ \E n \in 0..MaxEvalLen, m \in 0..MaxEvalLen :
          \E t \in [1..n -> TrueValues], p \in [1..m -> PredValues] :
              eval_in = [y_true |-> t, y_pred |-> p]
    /\ eval_out = None
    /\ eval_prev = None

CallEvaluateModel ==
    /\ eval_in # None
    /\ eval_out = None
    /\ eval_out' = evaluate_model(eval_in.y_true, eval_in.y_pred)
    /\ UNCHANGED <<inputVars, engineVars, seqVars, eval_in, eval_prev, restVars, caller>>

\* a second evaluation of the same true values, one finite prediction having
\* diverged to NaN, +inf or -inf
ReplaceNonFinite ==
    /\ eval_out # None
    /\ eval_prev = None
    /\ \E k \in 1..Len(eval_in.y_pred), r \in {NaN, PosInf, NegInf} :
          /\ IsFinite(eval_in.y_pred[k])
          /\ eval_prev' = [y_pred |-> eval_in.y_pred, out |-> eval_out, k |-> k]
          /\ eval_in' = [eval_in EXCEPT !.y_pred[k] = r]
          /\ eval_out' = evaluate_model(eval_in.y_true, [eval_in.y_pred EXCEPT ![k] = r])
    /\ UNCHANGED <<inputVars, engineVars, seqVars, restVars, caller>>

NextEval ==
    \/ CallEvaluateModel
    \/ ReplaceNonFinite

SpecEval == InitEval /\ [][NextEval]_vars

\* C10: when either sequence is empty or the lengths differ, evaluate_model
\* raises nothing and returns MSE = RMSE = MAE = MAPE = +inf and R2 = -inf.
C10_DegenerateIsWorst ==
    (eval_out # None
        /\ (eval_in.y_true = <<>> \/ eval_in.y_pred = <<>>
              \/ Len(eval_in.y_true) # Len(eval_in.y_pred))) =>
        /\ eval_out.kind = "return"
        /\ eval_out.metrics.MSE = [kind |-> "inf", sign |-> 1]
        /\ eval_out.metrics.RMSE = [kind |-> "inf", sign |-> 1]
        /\ eval_out.metrics.MAE = [kind |-> "inf", sign |-> 1]
        /\ eval_out.metrics.MAPE = [kind |-> "inf", sign |-> 1]
        /\ eval_out.metrics.R2 = [kind |-> "inf", sign |-> -1]

C10_Witness ==
    /\ eval_out # None
    /\ Len(eval_in.y_true) = 2
    /\ Len(eval_in.y_pred) = 1
    /\ eval_in.y_pred[1] = NaN
    /\ eval_out.kind = "return"

\* ---------------------------------------------------- the value of the RMSE
\* sklearn's mean_squared_error is mean((y_true - y_pred)^2) and RMSE its square
\* root.  With D = len(y_true), D * x is b * 1e12 + r for whole numbers b and r;
\* the sum of the squared errors times D^2 is then the polynomial
\* c2 * 1e12^2 + c1 * 1e12 + c0, whose coefficients stay far below 1e12.
ScaledBy(D, x) == [b |-> x.big * D, r |-> (x.num * D) \div x.den]

SquaredErrorSum(y_true, y_pred) ==
    LET D == Len(y_true)
        eb(k) == ScaledBy(D, y_true[k]).b - ScaledBy(D, y_pred[k]).b
        er(k) == ScaledBy(D, y_true[k]).r - ScaledBy(D, y_pred[k]).r
    IN  [c2 |-> SumSeq([k \in 1..D |-> eb(k) * eb(k)]),
         c1 |-> SumSeq([k \in 1..D |-> 2 * eb(k) * er(k)]),
         c0 |-> SumSeq([k \in 1..D |-> er(k) * er(k)])]

PolyLeq(p, q) ==
    \/ p.c2 < q.c2
    \/ p.c2 = q.c2 /\ p.c1 < q.c1
    \/ p.c2 = q.c2 /\ p.c1 = q.c1 /\ p.c0 <= q.c0

\* a <= b for two RMSE values computed over the same true values
RmseLeq(a, b) ==
    IF b = PosInf THEN TRUE
    ELSE IF a = PosInf THEN FALSE
    ELSE PolyLeq(SquaredErrorSum(a.of.y_true, a.of.y_pred),
                 SquaredErrorSum(b.of.y_true, b.of.y_pred))

\* C11: for the same true values, replacing a finite predicted value by NaN,
\* +inf or -inf never yields a smaller RMSE than before the replacement.
C11_SubstitutionNeverImproves ==
    (eval_prev # None /\ eval_prev.out.kind = "return" /\ eval_out.kind = "return") =>
        RmseLeq(eval_prev.out.metrics.RMSE, eval_out.metrics.RMSE)

\* ====================================================================== main
\* the hyperparameter lists of the grid; learning rates in units of 0.001
hidden_sizes_options == << <<8>>, <<16>>, <<8, 4>>, <<16, 8>> >>
loss_types == <<"SEL">>
activation_types == <<"tanh">>
lookbacks == <<20, 40, 60>>
learning_rates == <<1, 5, 10>>
epochs_list == <<100, 200>>
batch_sizes == <<32>>

\* how far past a threshold the sizes of the data set are taken
MaxSlack == 1
\* the test sizes main is started with
MaxMainT == 2
\* the RMSE a successful run evaluates to repeats with this period over the grid
OutcomePeriod == 3

\* variant: a lookback kept whenever the engine's own entry test passes
SkipLookback_engine(num_train_points_for_first_window, lb) ==
    num_train_points_for_first_window < lb

\* if num_train_points_for_first_window < lb + 1: continue
SkipLookback(num_train_points_for_first_window, lb) ==
    num_train_points_for_first_window < lb + 1

\* the six inner loops for one lookback, in the order they append
ConfigsFor(lb) ==
    LET nbs == Len(batch_sizes)
        nep == Len(epochs_list)
        nlr == Len(learning_rates)
        nat == Len(activation_types)
        nlt == Len(loss_types)
        nhs == Len(hidden_sizes_options)
    IN  [k \in 1..(nhs * nlt * nat * nlr * nep * nbs) |->
            LET z == k - 1
            IN  [lookback |-> lb,
                 hidden_sizes |->
                     hidden_sizes_options[((z \div (nbs * nep * nlr * nat * nlt)) % nhs) + 1],
                 loss_type |-> loss_types[((z \div (nbs * nep * nlr * nat)) % nlt) + 1],
                 activation |-> activation_types[((z \div (nbs * nep * nlr)) % nat) + 1],
                 learning_rate |-> learning_rates[((z \div (nbs * nep)) % nlr) + 1],
                 epochs |-> epochs_list[((z \div nbs) % nep) + 1],
                 batch_size |-> batch_sizes[(z % nbs) + 1]]]

\* for lb in lookbacks: ... ffnn_configurations.append({...})
RECURSIVE BuildConfigurations(_, _)
BuildConfigurations(k, num_train_points_for_first_window) ==
    IF k > Len(lookbacks) THEN <<>>
    ELSE (IF SkipLookback(num_train_points_for_first_window, lookbacks[k]) THEN <<>>
          ELSE ConfigsFor(lookbacks[k]))
         \o BuildConfigurations(k + 1, num_train_points_for_first_window)

\* f"lb{lookback}_hs{hidden_sizes[0]}_lt{loss_type}_at{activation}_lr{..}_ep{..}_bs{..}"
ConfigLabel(config) ==
    [lb |-> config.lookback, hs |-> config.hidden_sizes[1], lt |-> config.loss_type,
     at |-> config.activation, lr |-> config.learning_rate, ep |-> config.epochs,
     bs |-> config.batch_size]

\* what rolling_forecast_ffnn hands back for n rows, test size t and lookback lb:
\* the empty pair, the single zeros array, or one record per i in
\* test_start..n-1 that has a price after it
EngineOutcome(n, t, lb) ==
    LET test_start == n - t
    IN  IF test_start < lb THEN [kind |-> "tuple", len |-> 0]
        ELSE IF SequenceCount(test_start, lb) = 0 THEN [kind |-> "array"]
        ELSE [kind |-> "tuple",
              len |-> Cardinality({j \in test_start..(n - pred_len) : j + 1 < n})]

\* pd.notna(x)
NotNa(x) == x.kind # "nan"

\* x < y on floats that are whole numbers, +inf or NaN
FloatLess(x, y) ==
    IF x.kind = "nan" \/ y.kind = "nan" THEN FALSE
    ELSE IF x.kind = "inf" THEN x.sign = -1 /\ y # x
    ELSE IF y.kind = "inf" THEN y.sign = 1
    ELSE x.num < y.num

\* variant: the comparison turned around
Improves_reversed(rmse, best_rmse) == NotNa(rmse) /\ FloatLess(best_rmse, rmse)

\* pd.notna(eval_metrics['RMSE']) and eval_metrics['RMSE'] < best_ffnn_metrics['RMSE']
Improves(rmse, best_rmse) == NotNa(rmse) /\ FloatLess(rmse, best_rmse)

\* best_ffnn_metrics = {'RMSE': inf, 'config_label': None, 'metrics': None, ...}
BestInitial ==
    [RMSE |-> PosInf, config_label |-> None, metrics |-> None, config_details |-> None]

\* all_ffnn_run_results[config_label] = data
DictSet(d, key, data) ==
    [l \in DOMAIN d \cup {key} |-> IF l = key THEN data ELSE d[l]]

\* the RMSE values a run over a non-empty test window may evaluate to
RmseOutcomes == {Num(1), Num(2), PosInf}

\* the metrics of a successful run: the RMSE as this data set and this
\* configuration give it, the other four as terms of the same run
SuccessMetrics(k) ==
    [MSE |-> [op |-> "MSE", run |-> k], RMSE |-> main_in.rmse[k % OutcomePeriod],
     MAE |-> [op |-> "MAE", run |-> k], MAPE |-> [op |-> "MAPE", run |-> k],
     R2 |-> [op |-> "R2", run |-> k]]

\* the sizes of the data set taken: at and just past each threshold of the driver
TrainPointCounts ==
    {b + d : b \in {0} \cup {lookbacks[k] : k \in 1..Len(lookbacks)}, d \in 0..MaxSlack}

InitMain ==
    /\ EngineIdle
    /\ SeqIdle
    /\ EvalIdle
    /\ FitIdle
    /\ caller = NotCalled
    /\ \E t \in 1..MaxMainT, m \in TrainPointCounts :
          \E r \in [0..(OutcomePeriod - 1) -> RmseOutcomes] :
             main_in = [num_total_points |-> m + t, test_size |-> t, rmse |-> r]
    /\ main_pc = "start"
    /\ ffnn_configurations = <<>>
    /\ run_idx = 0
    /\ all_ffnn_run_results = <<>>
    /\ best_ffnn_metrics = None
    /\ run_log = <<>>
    /\ selected = None

\* load_and_prepare_data raises: main reports it and returns
MainLoadFails ==
    /\ main_pc = "start"
    /\ main_pc' = "returned"
    /\ UNCHANGED <<inputVars, engineVars, seqVars, evalVars, fitVars, caller, main_in,
                   ffnn_configurations, run_idx, all_ffnn_run_results, best_ffnn_metrics,
                   run_log, selected>>

\* from the length guard to the start of the grid loop
MainSetup ==
    /\ main_pc = "start"
    /\ LET fixed == main_in.test_size
           num_train_points_for_first_window == main_in.num_total_points - fixed
           configs == BuildConfigurations(1, num_train_points_for_first_window)
       IN  IF main_in.num_total_points <= fixed + pred_len
           THEN /\ main_pc' = "returned"
                /\ UNCHANGED <<ffnn_configurations, all_ffnn_run_results, best_ffnn_metrics>>
           ELSE /\ ffnn_configurations' = configs
                /\ IF configs = <<>>
                   THEN /\ main_pc' = "returned"
                        /\ UNCHANGED <<all_ffnn_run_results, best_ffnn_metrics>>
                   ELSE /\ main_pc' = "grid"
                        /\ all_ffnn_run_results' = <<>>
                        /\ best_ffnn_metrics' = BestInitial
    /\ UNCHANGED <<inputVars, engineVars, seqVars, evalVars, fitVars, caller, main_in,
                   run_idx, run_log, selected>>

\* one pass of "for idx, config_item in enumerate(ffnn_configurations)"
RunConfiguration ==
    /\ main_pc = "grid"
    /\ run_idx < Len(ffnn_configurations)
    /\ LET config == ffnn_configurations[run_idx + 1]
           config_label == ConfigLabel(config)
           outcome == EngineOutcome(main_in.num_total_points, main_in.test_size,
                                    config.lookback)
           entry(branch, rmse) ==
               [idx |-> run_idx, config |-> config, config_label |-> config_label,
                test_start |-> main_in.num_total_points - main_in.test_size,
                branch |-> branch, RMSE |-> rmse]
       IN  IF outcome.kind # "tuple"
           THEN \* the unpacking into (true_prices, pred_prices) raises
                /\ main_pc' = "raised"
                /\ run_log' = Append(run_log, entry("raised", None))
                /\ UNCHANGED <<run_idx, all_ffnn_run_results, best_ffnn_metrics>>
           ELSE IF outcome.len > 0
           THEN LET eval_metrics == SuccessMetrics(run_idx)
                    current_run_data ==
                        [metrics |-> eval_metrics, true_values |-> outcome.len,
                         predictions |-> outcome.len, config |-> config]
                IN  /\ all_ffnn_run_results' =
                           DictSet(all_ffnn_run_results, config_label, current_run_data)
                    /\ best_ffnn_metrics' =
                           IF Improves(eval_metrics.RMSE, best_ffnn_metrics.RMSE)
                           THEN [RMSE |-> eval_metrics.RMSE, config_label |-> config_label,
                                 metrics |-> eval_metrics, config_details |-> config]
                           ELSE best_ffnn_metrics
                    /\ run_log' = Append(run_log, entry("evaluated", eval_metrics.RMSE))
                    /\ run_idx' = run_idx + 1
                    /\ UNCHANGED main_pc
           ELSE LET failed == evaluate_model(<<>>, <<>>).metrics
                IN  /\ all_ffnn_run_results' =
                           DictSet(all_ffnn_run_results, config_label,
                                   [metrics |-> failed, true_values |-> 0,
                                    predictions |-> 0, config |-> config])
                    /\ run_log' = Append(run_log, entry("failed", failed.RMSE))
                    /\ run_idx' = run_idx + 1
                    /\ UNCHANGED <<main_pc, best_ffnn_metrics>>
    /\ UNCHANGED <<inputVars, engineVars, seqVars, evalVars, fitVars, caller, main_in,
                   ffnn_configurations, selected>>

\* after the loop: the best configuration is reported, or the failure message
MainReport ==
    /\ main_pc = "grid"
    /\ run_idx = Len(ffnn_configurations)
    /\ selected' = IF /\ best_ffnn_metrics.metrics # None
                      /\ NotNa(best_ffnn_metrics.RMSE)
                      /\ best_ffnn_metrics.RMSE # PosInf
                   THEN best_ffnn_metrics.config_label
                   ELSE None
    /\ main_pc' = "done"
    /\ UNCHANGED <<inputVars, engineVars, seqVars, evalVars, fitVars, caller, main_in,
                   ffnn_configurations, run_idx, all_ffnn_run_results, best_ffnn_metrics,
                   run_log>>

NextMain == MainLoadFails \/ MainSetup \/ RunConfiguration \/ MainReport

SpecMain == InitMain /\ [][NextMain]_vars

\* every combination of the other hyperparameters, attached to one lookback
FullProduct(lb) ==
    {[lookback |-> lb, hidden_sizes |-> hidden_sizes_options[h], loss_type |-> loss_types[l],
      activation |-> activation_types[a], learning_rate |-> learning_rates[r],
      epochs |-> epochs_list[e], batch_size |-> batch_sizes[b]] :
        h \in 1..Len(hidden_sizes_options), l \in 1..Len(loss_types),
        a \in 1..Len(activation_types), r \in 1..Len(learning_rates),
        e \in 1..Len(epochs_list), b \in 1..Len(batch_sizes)}

Enumerated == {ffnn_configurations[k] : k \in 1..Len(ffnn_configurations)}

MainTestStart == main_in.num_total_points - main_in.test_size

\* C12: main never calls the engine with a lookback for which
\* test_start < lookback + 1; once the configuration list is built, and so before
\* the first run, it holds no configuration with such a lookback and, for every
\* other lookback of the grid, each combination of the remaining hyperparameters
\* exactly once.
C12_GridSkip ==
    /\ \A k \in 1..Len(run_log) : run_log[k].test_start >= run_log[k].config.lookback + 1
    /\ main_pc \in {"grid", "done", "raised"} =>
          /\ \A k \in 1..Len(lookbacks) :
                LET lb == lookbacks[k]
                    ofLb == {c \in Enumerated : c.lookback = lb}
                    places == {j \in 1..Len(ffnn_configurations) :
                                  ffnn_configurations[j].lookback = lb}
                IN  IF MainTestStart < lb + 1
                    THEN ofLb = {}
                    ELSE ofLb = FullProduct(lb) /\ Cardinality(places) = Cardinality(ofLb)
          /\ \A c \in Enumerated : \E k \in 1..Len(lookbacks) : c.lookback = lookbacks[k]
          /\ \A k \in 1..Len(run_log) : run_log[k].config = ffnn_configurations[k]

\* a finished grid in which the lookback equal to test_start was left out and a
\* smaller one was run
C12_Witness ==
    /\ main_pc = "done"
    /\ \E k \in 1..Len(lookbacks) : MainTestStart = lookbacks[k]
    /\ \E k \in 1..Len(lookbacks) : MainTestStart >= lookbacks[k] + 1
    /\ Len(run_log) = Len(ffnn_configurations)
    /\ Len(run_log) > 0

\* C13: when the grid loop has finished, a configuration reported as best has a
\* finite RMSE, is one of the runs with exactly that RMSE, and no run has a
\* strictly smaller RMSE; when no run produced a finite RMSE, none is reported.
C13_BestIsMinimalFinite ==
    main_pc = "done" =>
        IF selected # None
        THEN /\ IsFinite(best_ffnn_metrics.RMSE)
             /\ \A k \in 1..Len(run_log) :
                   IsFinite(run_log[k].RMSE) => run_log[k].RMSE.num >= best_ffnn_metrics.RMSE.num
             /\ \E k \in 1..Len(run_log) :
                   /\ run_log[k].config_label = selected
                   /\ run_log[k].RMSE = best_ffnn_metrics.RMSE
                   /\ run_log[k].config = best_ffnn_metrics.config_details
        ELSE \A k \in 1..Len(run_log) : ~IsFinite(run_log[k].RMSE)

\* a finished grid whose best run came after a run with a larger finite RMSE and
\* after a run with an infinite one
C13_Witness ==
    /\ main_pc = "done"
    /\ selected # None
    /\ \E k \in 1..Len(run_log) :
          /\ run_log[k].RMSE = best_ffnn_metrics.RMSE
          /\ \A j \in 1..(k - 1) : run_log[j].RMSE # best_ffnn_metrics.RMSE
          /\ \E j \in 1..(k - 1) : run_log[j].RMSE = PosInf
          /\ \E j \in 1..(k - 1) :
                IsFinite(run_log[j].RMSE) /\ run_log[j].RMSE.num > best_ffnn_metrics.RMSE.num

\* C14: when the grid loop has finished, the result collection holds one entry
\* for every configuration that was run, each still carrying that configuration:
\* as many entries as runs, none replaced by the entry of another configuration.
C14_OneEntryPerConfiguration ==
    main_pc = "done" =>
        /\ Cardinality(DOMAIN all_ffnn_run_results) = Len(run_log)
        /\ \A k \in 1..Len(run_log) :
              /\ run_log[k].config_label \in DOMAIN all_ffnn_run_results
              /\ all_ffnn_run_results[run_log[k].config_label].config = run_log[k].config

\* ------------------------------------------------ alignment of the forecast
\* the (Window, Target) pairs create_sequences forms over the whole column
BuilderPairs ==
    LET column == ReadSlice(log_returns, 0, num_total_log_points)
    IN  create_sequences([k \in 1..Len(column) |-> <<column[k]>>], lookback)

\* the indices of the Targets the builder pairs with a window of these sources
BuilderTargetIndex(window) ==
    {BuilderPairs.targets[w][1].src : w \in
        {v \in 1..Len(BuilderPairs.features) :
            [c \in 1..Len(BuilderPairs.features[v]) |-> BuilderPairs.features[v][c][1]]
                = window}}

\* C15: at every iteration i that records a forecast, the log-return the builder
\* pairs with the input window [i-L, i) is the one at i+1, the return that leads
\* from the base price[i] to the recorded true price[i+1].
C15_WindowPairedWithNext ==
    \A e \in Entries :
        e.recorded =>
            /\ e.last_actual_price.src = e.i
            /\ e.actual_price.src = e.i + 1
            /\ BuilderTargetIndex(e.current_sequence) = {e.actual_price.src}

\* C16: every call of rolling_forecast_ffnn, the one with test_start = lookback
\* included, returns a pair of sequences of equal length, and the caller's
\* unpacking into (true_prices, pred_prices) does not fail.
C16_AlwaysAPair ==
    /\ pc = "returned" =>
          /\ ret.kind = "tuple"
          /\ Len(ret.true) = Len(ret.pred)
    /\ caller.kind # "ValueError"

\* ============================================================ batch training
\* The epoch loop exists twice: in train_and_predict_ffnn_step ("step") and as
\* the initial training of rolling_forecast_ffnn ("rolling").
MaxFitEpochs == 22

\* patience = 20
patience == 20

\* variant: the loop left one epoch later
ShouldBreak_late(patience_counter) == patience_counter > patience

\* if patience_counter >= patience: break
ShouldBreak(patience_counter) == patience_counter >= patience

\* the mean epoch losses taken: two finite levels and a diverged one
LossValues == {Num(0), Num(1), NaN}

FitModes == {"step", "rolling"}

InitFit ==
    /\ EngineIdle
    /\ SeqIdle
    /\ EvalIdle
    /\ MainIdle
    /\ caller = NotCalled
    /\ \E m \in FitModes, e \in 1..MaxFitEpochs, d \in BOOLEAN :
          fit_in = [mode |-> m, epochs |-> e, has_training_pairs |-> d]
    /\ fit_st = [pc |-> "start", epoch |-> 0, best_loss |-> None, patience_counter |-> None,
                 best_model_state |-> None, model |-> [epochs_applied |-> 0],
                 lowest_seen |-> PosInf, stale |-> 0]

\* up to "model.train()": no pair to train on returns at once; the step
\* function then sets up its early-stopping locals, the engine has none
FitStart ==
    /\ fit_st.pc = "start"
    /\ fit_st' =
          IF ~fit_in.has_training_pairs THEN [fit_st EXCEPT !.pc = "returned_zeros"]
          ELSE IF fit_in.mode = "step"
          THEN [fit_st EXCEPT !.pc = "training", !.best_loss = PosInf,
                              !.patience_counter = 0]
          ELSE [fit_st EXCEPT !.pc = "training"]
    /\ UNCHANGED <<inputVars, engineVars, seqVars, evalVars, mainVars, caller, fit_in>>

\* one pass of "for epoch in range(ffnn_config['epochs'])"; model holds the
\* number of epochs of optimizer steps applied; lowest_seen and stale observe the losses:
\* the lowest mean loss so far and the epochs since it was last undercut
FitEpoch ==
    /\ fit_st.pc = "training"
    /\ fit_st.epoch < fit_in.epochs
    /\ \E avg_epoch_loss \in LossValues :
          LET trained == [epochs_applied |-> fit_st.model.epochs_applied + 1]
              undercut == FloatLess(avg_epoch_loss, fit_st.lowest_seen)
              observed == [fit_st EXCEPT !.model = trained,
                                         !.epoch = fit_st.epoch + 1,
                                         !.lowest_seen = IF undercut THEN avg_epoch_loss ELSE @,
                                         !.stale = IF undercut THEN 0 ELSE @ + 1]
              exhausted == fit_st.epoch + 1 = fit_in.epochs
          IN  fit_st' =
                 IF fit_in.mode = "rolling"
                 THEN [observed EXCEPT !.pc = IF exhausted THEN "after_loop" ELSE "training"]
                 ELSE IF FloatLess(avg_epoch_loss, fit_st.best_loss)
                 THEN [observed EXCEPT !.best_loss = avg_epoch_loss,
                                       !.best_model_state = trained,
                                       !.patience_counter = 0,
                                       !.pc = IF exhausted THEN "after_loop" ELSE "training"]
                 ELSE [observed EXCEPT !.patience_counter = @ + 1,
                                       !.pc = IF ShouldBreak(fit_st.patience_counter + 1)
                                                 \/ exhausted
                                              THEN "after_loop" ELSE "training"]
    /\ UNCHANGED <<inputVars, engineVars, seqVars, evalVars, mainVars, caller, fit_in>>

\* after the loop: the step function restores the best snapshot, if there is
\* one, and predicts; the engine goes on with the parameters of the last epoch
FitAfterLoop ==
    /\ fit_st.pc = "after_loop"
    /\ fit_st' = [fit_st EXCEPT
                     !.pc = "trained",
                     !.model = IF fit_in.mode = "step" /\ fit_st.best_model_state # None
                               THEN fit_st.best_model_state ELSE @]
    /\ UNCHANGED <<inputVars, engineVars, seqVars, evalVars, mainVars, caller, fit_in>>

NextFit == FitStart \/ FitEpoch \/ FitAfterLoop

SpecFit == InitFit /\ [][NextFit]_vars

\* C17 as stated: in both trainings no more than config.epochs epochs run, and no
\* further epoch is begun once 20 epochs in a row have failed to undercut the
\* lowest mean epoch loss seen.
C17_BothStopEarly ==
    /\ fit_st.epoch <= fit_in.epochs
    /\ fit_st.pc = "training" => fit_st.stale < patience

\* C17, as the code has it: both trainings run at most config.epochs epochs;
\* train_and_predict_ffnn_step begins no further epoch once 20 epochs in a row
\* have failed to undercut the lowest mean epoch loss seen, and leaves the loop
\* only then or with all epochs run; the initial training of the engine always
\* runs all config.epochs epochs, whatever the losses.
C17_StepStopsEarlyEngineRunsAll ==
    /\ fit_st.epoch <= fit_in.epochs
    /\ fit_in.mode = "step" =>
          /\ fit_st.pc = "training" => fit_st.stale < patience
          /\ fit_st.pc \in {"after_loop", "trained"} =>
                fit_st.epoch = fit_in.epochs \/ fit_st.stale = patience
          /\ fit_st.pc # "start" /\ fit_in.has_training_pairs =>
                fit_st.patience_counter = fit_st.stale /\ fit_st.best_loss = fit_st.lowest_seen
    /\ (fit_in.mode = "rolling" /\ fit_st.pc \in {"after_loop", "trained"}) =>
          fit_st.epoch = fit_in.epochs

\* the step function stopped before its last epoch, after an earlier improvement
C17_Witness ==
    /\ fit_in.mode = "step"
    /\ fit_st.pc = "trained"
    /\ fit_st.epoch < fit_in.epochs
    /\ fit_st.stale = patience
    /\ fit_st.best_model_state # None

\* the engine's training went on past 20 epochs without improvement
C17_WitnessEngine ==
    /\ fit_in.mode = "rolling"
    /\ fit_st.pc = "trained"
    /\ fit_st.stale > patience

====
